---- MODULE Spec2Model ----
(***************************************************************************)
(* nemo-screenshot (src/index.js): the capture service (snap, source,      *)
(* done, setCurrentTestTitle) and the two auto-capture hooks (the wrapped  *)
(* element click and the listener on the control flow's uncaught-exception *)
(* channel), as a state machine.                                            *)
(*                                                                         *)
(* Strings are sequences of one-character strings, so that concatenation,  *)
(* substr and path operations are computed and not assumed.  Error objects *)
(* are named by strings; their mutable fields (stack, the marker           *)
(* _nemoScreenshotHandled) are the variables stack and marked.             *)
(*                                                                         *)
(* The driver, the file system and the control flow are the environment:   *)
(* every request this module issues to them is answered by a separate      *)
(* action, with either outcome.  flow.emit dispatches synchronously to the *)
(* listeners of the channel, the hook among them.                          *)
(***************************************************************************)
EXTENDS Integers, Sequences, FiniteSets, TLC

VARIABLES
    phase,        \* "new" before setup, "ready" after
    sessionRet,   \* what driver.getSession() returns (environment)
    env,          \* process.env: JENKINS_URL, BUILD_URL, JOB_NAME, WORKSPACE
    screenShotPath, \* setup's first argument
    options,      \* autoCaptureOptions
    clickWrapped, \* WebElement.prototype.click has been replaced
    hookInstalled,\* the uncaught-exception listener is subscribed
    setupCalls,   \* arguments of the calls of setup's callback
    title,        \* nemo.screenshot._currentTestTitle (<<>>: not set)
    caps,         \* one record per call of snap or source
    dones,        \* one record per call of done
    clicks,       \* one record per call of the element click
    queries,      \* one record per getSession() query of the hook
    passes,       \* one record per activation of the hook
    marked,       \* objects whose _nemoScreenshotHandled is true
    stack,        \* err.stack of the error objects: the appended texts
    dirs,         \* directories that exist
    files,        \* files written
    log           \* what the module asked of its environment, in order

vars == <<phase, sessionRet, env, screenShotPath, options, clickWrapped,
          hookInstalled, setupCalls, title, caps, dones, clicks, queries,
          passes, marked, stack, dirs, files, log>>

----------------------------------------------------------------------------
(* Bounds of the model *)

\* captures that the calls and events of one run can start
MaxCaptures == 2
\* nested listener activations the JavaScript stack holds before RangeError
MaxStack == 3
\* the millisecond clock reads 0..MaxTime
MaxTime == 0

----------------------------------------------------------------------------
(* Values *)

\* Error and exception objects handled by callers and the control flow.
Errors == {"e1", "e2"}
\* Failures reported by the environment.
ShotError == "shotError"
SourceError == "sourceError"
ScriptError == "scriptError"
WriteError == "writeError"
MkdirError == "mkdirError"
SessionError == "sessionError"
Objects == Errors \cup {ShotError, SourceError, ScriptError, WriteError,
                         MkdirError, SessionError}

\* getSession() returns undefined (the driver has quit) or a promise, which
\* is later fulfilled with a session, fulfilled with null, or rejected.
SessionReturns == {"undefined", "promise"}
SessionOutcomes == {"session", "null", "rejected"}
Truthy(ret) == ret # "undefined"

Pid == <<"7">>
Cwd == <<"/", "c">>
FileNames == {<<"f">>, <<"d", "/", "g">>}
Titles == {<<>>, <<"a", " ", "b">>}
ShotPaths == {<<"r">>}
Undefined == <<"undefined">>
Environments ==
    {[JENKINS_URL |-> <<>>, BUILD_URL |-> <<>>, JOB_NAME |-> <<>>, WORKSPACE |-> <<>>],
     [JENKINS_URL |-> <<"J">>, BUILD_URL |-> <<>>, JOB_NAME |-> <<"j">>,
      WORKSPACE |-> <<"/", "w">>]}

NoValue == [tag |-> "none"]
TrueValue == [tag |-> "true"]
ErrorValue(e) == [tag |-> "error", err |-> e]


----------------------------------------------------------------------------
(* Strings and paths *)

Png == <<".", "p", "n", "g">>
Html == <<".", "h", "t", "m", "l">>
Txt == <<".", "t", "x", "t">>
Sep == <<"/">>

\* String.prototype.substr(n), for n >= 0
Substr(s, n) == SubSeq(s, n + 1, Len(s))

\* path.resolve(p): an absolute path stays, a relative one is taken from cwd
Resolve(p) == IF p # <<>> /\ p[1] = "/" THEN p ELSE Cwd \o Sep \o p

\* path.join(dir, name)
Join(dir, name) == dir \o Sep \o name

\* path.dirname(p): p up to its last separator
Dirname(p) ==
    LET seps == {i \in 1..Len(p) : p[i] = "/"}
        last == CHOOSE i \in seps : \A j \in seps : j <= i
    IN IF seps = {} THEN <<".">>
       ELSE IF last = 1 THEN Sep
       ELSE SubSeq(p, 1, last - 1)

\* mkdirp.sync(d): d and every directory above it exist afterwards
Mkdirp(existing, d) ==
    existing \cup {SubSeq(d, 1, k) : k \in {i \in 1..Len(d) : i = Len(d) \/ d[i + 1] = "/"}}

TimeStr(n) == <<"0", "1", "2", "3", "4", "5", "6", "7", "8", "9">>[n + 1]

ClickFileName(t) == <<"ScreenShot_onClick-">> \o Pid \o <<"-", TimeStr(t)>>
ExceptionFileName(t) == <<"ScreenShot_onException-">> \o Pid \o <<"-", TimeStr(t)>>

----------------------------------------------------------------------------
(* titleSlug, lines 37-43 *)

WordChars == {"a", "b", "c", "e", "s", "t", "y", "A", "B", "C", "M", "T", "0", "1", "_"}
WhiteSpace == {" "}
TitleMax == 251

RECURSIVE TrimLeft(_)
TrimLeft(s) == IF s # <<>> /\ Head(s) \in WhiteSpace THEN TrimLeft(Tail(s)) ELSE s

RECURSIVE TrimRight(_)
TrimRight(s) ==
    IF s # <<>> /\ s[Len(s)] \in WhiteSpace THEN TrimRight(SubSeq(s, 1, Len(s) - 1)) ELSE s

Trim(s) == TrimRight(TrimLeft(s))

ReplaceNonWord(s) == [i \in 1..Len(s) |-> IF s[i] \in WordChars THEN s[i] ELSE "_"]

Substring(s, from, to) == SubSeq(s, from + 1, IF to < Len(s) THEN to ELSE Len(s))

\* a slug of the title as it is, without trim()
titleSlugUntrimmed(t) == IF t = <<>> THEN <<>> ELSE Substring(ReplaceNonWord(t), 0, TitleMax)

titleSlug(t) == IF t = <<>> THEN <<>> ELSE Substring(ReplaceNonWord(Trim(t)), 0, TitleMax)

----------------------------------------------------------------------------
(* formatJenkinsImageUrls, lines 66-99 *)

\* an unset variable reads as undefined, which concatenates as "undefined"
JsString(v) == IF v = <<>> THEN Undefined ELSE v

NoUrls == [tag |-> "null", imageUrl |-> Undefined, archivedImageUrl |-> Undefined]

\* a formatter that goes on without WORKSPACE
formatJenkinsImageUrlsAnyway(e, shotPath, imageName) ==
    LET imageUrl == IF e.JOB_NAME # <<>>
                    THEN JsString(e.JENKINS_URL) \o <<"job/">> \o e.JOB_NAME \o <<"/ws">>
                         \o shotPath \o Sep \o imageName
                    ELSE Undefined
        archivedImageUrl == IF e.BUILD_URL # <<>>
                            THEN e.BUILD_URL \o <<"artifact">> \o shotPath \o Sep \o imageName
                            ELSE Undefined
    IN IF imageUrl # Undefined \/ archivedImageUrl # Undefined
       THEN [tag |-> "urls", imageUrl |-> imageUrl, archivedImageUrl |-> archivedImageUrl]
       ELSE NoUrls

formatJenkinsImageUrls(e, shotPath, imageName) ==
    IF e.WORKSPACE = <<>> THEN NoUrls
    ELSE LET relImagePath == Substr(shotPath, Len(e.WORKSPACE))
             imageUrl == IF e.JOB_NAME # <<>>
                         THEN JsString(e.JENKINS_URL) \o <<"job/">> \o e.JOB_NAME \o <<"/ws">>
                              \o relImagePath \o Sep \o imageName
                         ELSE Undefined
             archivedImageUrl == IF e.BUILD_URL # <<>>
                                 THEN e.BUILD_URL \o <<"artifact">> \o relImagePath
                                      \o Sep \o imageName
                                 ELSE Undefined
         IN IF imageUrl # Undefined \/ archivedImageUrl # Undefined
            THEN [tag |-> "urls", imageUrl |-> imageUrl,
                  archivedImageUrl |-> archivedImageUrl]
            ELSE NoUrls

----------------------------------------------------------------------------
(* appendImageUrlToStackTrace, lines 45-64 *)

\* JSON.stringify of what snap's awaitable is fulfilled with
JsonStringify(v) ==
    IF v.tag = "true" THEN <<"true">>
    ELSE <<"{", "imageName:">> \o v.imageName \o <<",", "imagePath:">> \o v.imagePath
         \o (IF v.imageUrl # Undefined THEN <<",", "imageUrl:">> \o v.imageUrl ELSE <<>>)
         \o (IF v.archivedImageUrl # Undefined
             THEN <<",", "archivedImageUrl:">> \o v.archivedImageUrl ELSE <<>>)
         \o <<"}">>

HasUrl(v, field) == v.tag = "image" /\ v[field] # Undefined

ImageUrlOutput(v) ==
    IF HasUrl(v, "imageUrl") \/ HasUrl(v, "archivedImageUrl")
    THEN <<"\n">>
         \o (IF HasUrl(v, "imageUrl")
             THEN <<"nemo-screenshot (workspace): ">> \o v.imageUrl \o <<"\n">> ELSE <<>>)
         \o (IF HasUrl(v, "archivedImageUrl")
             THEN <<"nemo-screenshot (archived): ">> \o v.archivedImageUrl \o <<"\n">>
             ELSE <<>>)
    ELSE <<"\nnemo-screenshot::">> \o JsonStringify(v) \o <<"::nemo-screenshot">>

\* the stacks after appendImageUrlToStackTrace(v, err); err "none" is a falsy err
\* an annotation that reaches the trace of every error
appendImageUrlToEveryStackTrace(stacks, v, err) ==
    [e \in DOMAIN stacks |-> stacks[e] \o ImageUrlOutput(v)]

appendImageUrlToStackTrace(stacks, v, err) ==
    IF err \in DOMAIN stacks
    THEN [stacks EXCEPT ![err] = @ \o ImageUrlOutput(v)]
    ELSE stacks


----------------------------------------------------------------------------
(* The awaitable bridge p(wd), lines 21-35: the pair's awaitable is the    *)
(* state and value fields of the record of the call that made it.          *)

Deferred == [state |-> "pending", value |-> NoValue]

\* a resolver whose last call wins
FulfillOverwrites(d, v) == [d EXCEPT !.state = "fulfilled", !.value = v]

Fulfill(d, v) ==
    IF d.state = "pending" THEN [d EXCEPT !.state = "fulfilled", !.value = v] ELSE d

Reject(d, e) ==
    IF d.state = "pending" THEN [d EXCEPT !.state = "rejected", !.value = ErrorValue(e)]
    ELSE d

----------------------------------------------------------------------------
(* The log: what the synchronous code of this module and of its callers    *)
(* does, in order: requests to the driver, invocations of the original     *)
(* click, exceptions reported by the control flow, what a listener throws  *)
(* and the emits of the hook: "reemit" at line 345 (with the depth of the  *)
(* activation), "emit" at lines 364 and 371 (with the query).              *)

Event(ev, op, id) == [ev |-> ev, op |-> op, id |-> id]

\* What changes during one synchronous run of this module's code
World == [caps |-> caps, log |-> log, marked |-> marked, passes |-> passes,
          queries |-> queries, threw |-> "none"]

SetWorld(w) ==
    /\ caps' = w.caps
    /\ log' = w.log
    /\ marked' = w.marked
    /\ passes' = w.passes
    /\ queries' = w.queries

----------------------------------------------------------------------------
(* snap and source up to their return, lines 145-154 and 202-286 *)

NewCapture(kind, f, by) ==
    [kind |-> kind, by |-> by, filename |-> f, pc |-> "end", script |-> "none",
     state |-> Deferred.state, value |-> Deferred.value, obj |-> NoValue,
     \* what the environment answered: the driver, mkdirp.sync, fs.writeFile
     answer |-> "none", mkdir |-> "none", written |-> "none"]

\* snap without the session guard of lines 149-153
SnapCallUnguarded(w, f, by) ==
    [w EXCEPT !.caps = Append(@, [NewCapture("snap", f, by) EXCEPT !.pc = "request"]),
              !.log = Append(@, Event("request", "takeScreenshot", Len(w.caps) + 1))]

\* lines 145-154 and 189: the guard, then the takeScreenshot request
SnapCall(w, f, by) ==
    LET c == NewCapture("snap", f, by)
        id == Len(w.caps) + 1
    IN IF ~Truthy(sessionRet)
       THEN [w EXCEPT !.caps = Append(@, Fulfill(c, TrueValue))]
       ELSE [w EXCEPT !.caps = Append(@, [c EXCEPT !.pc = "request"]),
                      !.log = Append(@, Event("request", "takeScreenshot", id))]

\* lines 202-210, 272, 286 and 310: the guard, then the script and the
\* page-source requests
SourceCall(w, f, by) ==
    LET c == NewCapture("source", f, by)
        id == Len(w.caps) + 1
    IN IF ~Truthy(sessionRet)
       THEN [w EXCEPT !.caps = Append(@, Fulfill(c, TrueValue))]
       ELSE [w EXCEPT !.caps = Append(@, [c EXCEPT !.pc = "request", !.script = "request"]),
                      !.log = @ \o <<Event("request", "executeScript", id),
                                     Event("request", "getPageSource", id)>>]

\* lines 155-158 and 287-290: the path of the artifact of capture c
ArtifactName(c) == c.filename \o (IF c.kind = "snap" THEN Png ELSE Html)
ArtifactPath(c) == Join(Resolve(screenShotPath), ArtifactName(c))
\* lines 274-276
InvisiPath(c) == Join(Resolve(screenShotPath), c.filename \o Txt)

\* lines 163-173: imageObj
ImageObject(c) ==
    LET urls == IF env.JENKINS_URL # <<>>
                THEN formatJenkinsImageUrls(env, screenShotPath, ArtifactName(c))
                ELSE NoUrls
    IN [tag |-> "image", imageName |-> ArtifactName(c), imagePath |-> ArtifactPath(c),
        imageUrl |-> urls.imageUrl, archivedImageUrl |-> urls.archivedImageUrl]

\* lines 295-296: sourceObj
SourceObject(c) ==
    [tag |-> "source", sourceName |-> ArtifactName(c), sourcePath |-> ArtifactPath(c)]

ResultObject(c) == IF c.kind = "snap" THEN ImageObject(c) ELSE SourceObject(c)

RequestError(c) == IF c.kind = "snap" THEN ShotError ELSE SourceError

\* Calls and events so far, each counted as the captures it can start
HookCost == IF "source" \in options THEN 2 ELSE 1

Committed ==
    Cardinality({c \in DOMAIN caps : caps[c].by = "test"}) + Len(dones)
    + HookCost * (Len(clicks)
                  + Cardinality({i \in DOMAIN log : log[i].ev = "uncaughtException"}))

Room(n) == Committed + n <= MaxCaptures

----------------------------------------------------------------------------
(* setup, lines 109-131 and 328-377 *)

\* lines 113-124: the options setup works with
AutoCaptureOptions(opts, nargs) == IF nargs = 3 THEN {} ELSE opts

\* a setup that installs both hooks whatever the options
SetupInstallsAll(path, opts, nargs) ==
    /\ phase = "new"
    /\ phase' = "ready"
    /\ screenShotPath' = path
    /\ options' = AutoCaptureOptions(opts, nargs)
    /\ clickWrapped' = TRUE
    /\ hookInstalled' = TRUE
    /\ setupCalls' = Append(setupCalls, "null")
    /\ UNCHANGED <<sessionRet, env, title, caps, dones, clicks, queries, passes,
                   marked, stack, dirs, files, log>>

Setup(path, opts, nargs) ==
    /\ phase = "new"
    /\ phase' = "ready"
    /\ screenShotPath' = path
    /\ options' = AutoCaptureOptions(opts, nargs)
    /\ clickWrapped' = ("click" \in options')
    /\ hookInstalled' = ("exception" \in options')
    /\ setupCalls' = Append(setupCalls, "null")
    /\ UNCHANGED <<sessionRet, env, title, caps, dones, clicks, queries, passes,
                   marked, stack, dirs, files, log>>

\* lines 323-325; the tests set the title before they use the driver
SetCurrentTestTitle(t) ==
    /\ phase = "ready"
    /\ Committed = 0
    /\ title # t
    /\ title' = t
    /\ UNCHANGED <<phase, sessionRet, env, screenShotPath, options, clickWrapped,
                   hookInstalled, setupCalls, caps, dones, clicks, queries, passes,
                   marked, stack, dirs, files, log>>

----------------------------------------------------------------------------
(* Calls of the capture service by the tests *)

Snap(f) ==
    /\ phase = "ready"
    /\ Room(1)
    /\ SetWorld(SnapCall(World, f, "test"))
    /\ UNCHANGED <<phase, sessionRet, env, screenShotPath, options, clickWrapped,
                   hookInstalled, setupCalls, title, dones, clicks, stack, dirs,
                   files>>

Source(f) ==
    /\ phase = "ready"
    /\ Room(1)
    /\ SetWorld(SourceCall(World, f, "test"))
    /\ UNCHANGED <<phase, sessionRet, env, screenShotPath, options, clickWrapped,
                   hookInstalled, setupCalls, title, dones, clicks, stack, dirs,
                   files>>

\* lines 313-314: done calls snap and registers its two continuations
Done(f, err) ==
    /\ phase = "ready"
    /\ Room(1)
    /\ SetWorld(SnapCall(World, f, "done"))
    /\ dones' = Append(dones, [cap |-> Len(caps) + 1, err |-> err, calls |-> <<>>,
                               reacted |-> FALSE])
    /\ UNCHANGED <<phase, sessionRet, env, screenShotPath, options, clickWrapped,
                   hookInstalled, setupCalls, title, clicks, stack, dirs, files>>

----------------------------------------------------------------------------
(* The driver and the file system answer; the continuation runs *)

\* a continuation that settles the awaitable before the write has ended
OnRequestFulfilledEarly(cap, mkdirOk) ==
    IF mkdirOk
    THEN [Fulfill(cap, ResultObject(cap)) EXCEPT !.pc = "write", !.obj = ResultObject(cap)]
    ELSE [cap EXCEPT !.pc = "thrown"]

\* lines 155-177 (snap) and 287-299 (source): the continuation of the driver's
\* answer.  mkdirp.sync either succeeds, and the write is issued, or throws
\* inside the continuation, whose promise has no rejection handler.
OnRequestFulfilled(cap, mkdirOk) ==
    IF mkdirOk THEN [cap EXCEPT !.pc = "write", !.obj = ResultObject(cap)]
    ELSE [cap EXCEPT !.pc = "thrown"]

RequestFulfilled(c, mkdirOk) ==
    /\ c \in DOMAIN caps
    /\ caps[c].pc = "request"
    /\ caps' = [caps EXCEPT ![c] = [OnRequestFulfilled(caps[c], mkdirOk) EXCEPT
                                       !.answer = "delivered",
                                       !.mkdir = IF mkdirOk THEN "ok" ELSE MkdirError]]
    /\ dirs' = IF mkdirOk THEN Mkdirp(dirs, Dirname(ArtifactPath(caps[c]))) ELSE dirs
    /\ UNCHANGED <<phase, sessionRet, env, screenShotPath, options, clickWrapped,
                   hookInstalled, setupCalls, title, dones, clicks, queries, passes,
                   marked, stack, files, log>>

\* lines 185-187 and 306-308: the driver fails the request
OnRequestRejected(cap, e) == [Reject(cap, e) EXCEPT !.pc = "end"]

RequestRejected(c) ==
    /\ c \in DOMAIN caps
    /\ caps[c].pc = "request"
    /\ caps' = [caps EXCEPT ![c] = [OnRequestRejected(caps[c], RequestError(caps[c]))
                                       EXCEPT !.answer = RequestError(caps[c])]]
    /\ UNCHANGED <<phase, sessionRet, env, screenShotPath, options, clickWrapped,
                   hookInstalled, setupCalls, title, dones, clicks, queries, passes,
                   marked, stack, dirs, files, log>>

\* a callback that reports its own error in place of the one it was given
OnWrittenWrapped(cap, err) ==
    IF err # "none"
    THEN [Reject(cap, "captureFailed") EXCEPT !.pc = "end"]
    ELSE [Fulfill(cap, cap.obj) EXCEPT !.pc = "end"]

\* lines 178-184 and 299-305: the callback of fs.writeFile
OnWritten(cap, err) ==
    IF err # "none"
    THEN [Reject(cap, err) EXCEPT !.pc = "end"]
    ELSE [Fulfill(cap, cap.obj) EXCEPT !.pc = "end"]

WriteAnswered(c, err) ==
    /\ c \in DOMAIN caps
    /\ caps[c].pc = "write"
    /\ files' = IF err = "none" THEN files \cup {ArtifactPath(caps[c])} ELSE files
    /\ caps' = [caps EXCEPT ![c] = [OnWritten(caps[c], err) EXCEPT
                                       !.written = IF err = "none" THEN "ok" ELSE err]]
    /\ UNCHANGED <<phase, sessionRet, env, screenShotPath, options, clickWrapped,
                   hookInstalled, setupCalls, title, dones, clicks, queries, passes,
                   marked, stack, dirs, log>>

\* a side channel that surfaces the failure of the script to the caller
OnScriptAnsweredSurfaced(cap, ok) ==
    IF ok THEN [cap EXCEPT !.script = "write"]
    ELSE [Reject(cap, ScriptError) EXCEPT !.script = "rejected"]

\* lines 272-278: the continuation of executeScript() has no rejection handler
\* and does not touch the deferred
OnScriptAnswered(cap, ok) == [cap EXCEPT !.script = IF ok THEN "write" ELSE "rejected"]

\* lines 272-278: the script's result arrives and the .txt write is issued;
\* a failed script rejects a promise that has no rejection handler
ScriptAnswered(c, ok) ==
    /\ c \in DOMAIN caps
    /\ caps[c].script = "request"
    /\ caps' = [caps EXCEPT ![c] = OnScriptAnswered(caps[c], ok)]
    /\ UNCHANGED <<phase, sessionRet, env, screenShotPath, options, clickWrapped,
                   hookInstalled, setupCalls, title, dones, clicks, queries, passes,
                   marked, stack, dirs, files, log>>

\* lines 278-282: the .txt write ends; it can succeed only in a directory that
\* exists, and an error is printed and dropped
InvisiWriteAnswered(c, ok) ==
    /\ c \in DOMAIN caps
    /\ caps[c].script = "write"
    /\ ok => Dirname(InvisiPath(caps[c])) \in dirs
    /\ caps' = [caps EXCEPT ![c].script = IF ok THEN "end" ELSE "logged"]
    /\ files' = IF ok THEN files \cup {InvisiPath(caps[c])} ELSE files
    /\ UNCHANGED <<phase, sessionRet, env, screenShotPath, options, clickWrapped,
                   hookInstalled, setupCalls, title, dones, clicks, queries, passes,
                   marked, stack, dirs, log>>

----------------------------------------------------------------------------
(* done's continuations, lines 314-320 *)

\* done without the continuation of line 317-320
DoneCallbackArgsNoFailure(cap, err) ==
    IF cap.state = "fulfilled" THEN <<err>> ELSE <<>>

\* the arguments of the calls of the callback, given snap's outcome
DoneCallbackArgs(cap, err) ==
    IF cap.state = "fulfilled" THEN <<err>> ELSE <<cap.value.err>>

\* continuations that call back without annotating the error
DoneStacksUnannotated(stacks, cap, err) == stacks

\* the stacks after the continuation that runs
DoneStacks(stacks, cap, err) ==
    IF cap.state = "fulfilled" THEN appendImageUrlToStackTrace(stacks, cap.value, err)
    ELSE stacks

DoneReaction(d) ==
    /\ d \in DOMAIN dones
    /\ ~dones[d].reacted
    /\ caps[dones[d].cap].state # "pending"
    /\ LET args == DoneCallbackArgs(caps[dones[d].cap], dones[d].err)
       IN dones' = [dones EXCEPT ![d].reacted = TRUE, ![d].calls = @ \o args]
    /\ stack' = DoneStacks(stack, caps[dones[d].cap], dones[d].err)
    /\ UNCHANGED <<phase, sessionRet, env, screenShotPath, options, clickWrapped,
                   hookInstalled, setupCalls, title, caps, clicks, queries, passes,
                   marked, dirs, files, log>>

----------------------------------------------------------------------------
(* The click wrapper, lines 329-340 *)

\* a wrapper that clicks first and captures afterwards
WrappedClickFirst(w, k, t) ==
    LET filename == ClickFileName(t)
        w0 == [w EXCEPT !.log = Append(@, Event("oclick", "click", k))]
        w1 == IF "source" \in options THEN SourceCall(w0, filename, "click") ELSE w0
    IN SnapCall(w1, filename, "click")

\* lines 332-338: source if configured, snap, then the original click, whose
\* invocation is the argument of then
WrappedClick(w, k, t) ==
    LET filename == ClickFileName(t)
        w1 == IF "source" \in options THEN SourceCall(w, filename, "click") ELSE w
        w2 == SnapCall(w1, filename, "click")
    IN [w2 EXCEPT !.log = Append(@, Event("oclick", "click", k))]

\* an element is clicked at time t: the wrapper if it is installed, the
\* original click otherwise
Click(t) ==
    /\ phase = "ready"
    /\ Room(HookCost)
    /\ LET k == Len(clicks) + 1
           w == IF clickWrapped THEN WrappedClick(World, k, t)
                ELSE [World EXCEPT !.log = Append(@, Event("oclick", "click", k))]
       IN /\ SetWorld(w)
          /\ clicks' = Append(clicks, [wrapped |-> clickWrapped,
                                       first |-> Len(caps) + 1,
                                       cap |-> IF clickWrapped THEN Len(w.caps) ELSE 0,
                                       \* the original click's own awaitable
                                       oclick |-> Deferred,
                                       \* the awaitable this call of click returns
                                       ret |-> Deferred])
    /\ UNCHANGED <<phase, sessionRet, env, screenShotPath, options, clickWrapped,
                   hookInstalled, setupCalls, title, dones, stack, dirs, files>>

\* what the driver answers to the original click
Clicked == [tag |-> "clicked"]
ClickError == "clickError"

\* a wrapper that returns what the original click returns
ClickReturnOfClick(cap, oclick) == oclick

\* lines 337-338: then is given the original click's awaitable, which is not a
\* function, so the awaitable it returns takes the outcome of snap's awaitable
ClickReturn(cap, oclick) == [state |-> cap.state, value |-> cap.value]

\* the awaitable returned by click k
ClickReturned(k) ==
    IF clicks[k].wrapped THEN ClickReturn(caps[clicks[k].cap], clicks[k].oclick)
    ELSE clicks[k].oclick

\* the driver answers the original click
OriginalClickAnswered(k, ok) ==
    /\ k \in DOMAIN clicks
    /\ clicks[k].oclick.state = "pending"
    /\ clicks' = [clicks EXCEPT ![k].oclick = IF ok THEN Fulfill(@, Clicked)
                                               ELSE Reject(@, ClickError)]
    /\ UNCHANGED <<phase, sessionRet, env, screenShotPath, options, clickWrapped,
                   hookInstalled, setupCalls, title, caps, dones, queries, passes,
                   marked, stack, dirs, files, log>>

\* the reactions on the awaitable returned by click k run
ClickReturnSettled(k) ==
    /\ k \in DOMAIN clicks
    /\ clicks[k].ret.state = "pending"
    /\ ClickReturned(k).state # "pending"
    /\ clicks' = [clicks EXCEPT ![k].ret = ClickReturned(k)]
    /\ UNCHANGED <<phase, sessionRet, env, screenShotPath, options, clickWrapped,
                   hookInstalled, setupCalls, title, caps, dones, queries, passes,
                   marked, stack, dirs, files, log>>

----------------------------------------------------------------------------
(* The uncaught-exception hook, lines 342-374.  flow.emit calls the        *)
(* listeners of the channel one after the other, synchronously, and the    *)
(* hook is one of them; a call beyond MaxStack nested activations ends in  *)
(* a RangeError, which unwinds every activation it passes through.         *)

RECURSIVE HookListener(_, _, _, _)
RECURSIVE Emit(_, _, _, _)

\* flow.emit(uncaughtException, e), called by `by` with depth - 1 activations
\* of the hook on the stack
Emit(w, e, by, depth) ==
    IF ~hookInstalled THEN w
    ELSE IF depth > MaxStack THEN [w EXCEPT !.threw = "RangeError"]
    ELSE HookListener(w, e, by, depth)

\* lines 343-349, up to the return of the listener
HookListener(w, e, by, depth) ==
    LET idx == Len(w.passes) + 1
        wasMarked == e \in w.marked
        entered == [w EXCEPT !.passes = Append(@,
                       [exc |-> e, by |-> by, depth |-> depth, wasMarked |-> wasMarked,
                        emitted |-> IF wasMarked THEN 1 ELSE 0, queried |-> FALSE,
                        result |-> "running"])]
        \* lines 344-346
        w1 == IF wasMarked
              THEN Emit([entered EXCEPT !.log = Append(@, Event("reemit", e, depth))],
                        e, "hook", depth + 1)
              ELSE entered
    IN IF w1.threw # "none"
       THEN [w1 EXCEPT !.passes[idx].result = "threw"]
       ELSE \* line 348
            LET w2 == [w1 EXCEPT !.marked = @ \cup {e}]
            IN \* line 349: undefined has no then
               IF ~Truthy(sessionRet)
               THEN [w2 EXCEPT !.threw = "TypeError", !.passes[idx].result = "threw"]
               ELSE [w2 EXCEPT !.queries = Append(@, [exc |-> e, pc |-> "query", cap |-> 0,
                                                       outcome |-> "none",
                                                       unhandled |-> "none"]),
                               !.log = Append(@, Event("request", "getSession", idx)),
                               !.passes[idx].queried = TRUE,
                               !.passes[idx].result = "returned"]

\* the control flow reports exception e on the channel
UncaughtException(e) ==
    /\ phase = "ready"
    /\ Room(HookCost)
    /\ LET w0 == [World EXCEPT !.log = Append(@, Event("uncaughtException", e, 0))]
           w == Emit(w0, e, "flow", 1)
       IN SetWorld(IF w.threw = "none" THEN w
                   ELSE [w EXCEPT !.log = Append(@, Event("thrown", w.threw, 0))])
    /\ UNCHANGED <<phase, sessionRet, env, screenShotPath, options, clickWrapped,
                   hookInstalled, setupCalls, title, dones, clicks, stack, dirs,
                   files>>

\* lines 351-356
HookFileName(t) == IF title # <<>> THEN titleSlug(title) ELSE ExceptionFileName(t)

\* lines 350-362 with a session: source if configured, then snap
OnSession(w, q, t) ==
    LET w1 == IF "source" \in options THEN SourceCall(w, HookFileName(t), "hook") ELSE w
        w2 == SnapCall(w1, HookFileName(t), "hook")
    IN [w2 EXCEPT !.queries[q].pc = "snap", !.queries[q].cap = Len(w2.caps)]

\* a rejection handler that lets the exception go instead of emitting it
OnQueryCatchRethrow(w, q, e) ==
    [w EXCEPT !.marked = @ \cup {e}, !.queries[q].pc = "end",
              !.threw = w.queries[q].exc]

\* a rejection handler that emits the reason it was given
OnQueryCatchEmitReason(w, q, e) ==
    LET w1 == [w EXCEPT !.marked = @ \cup {e}, !.queries[q].pc = "end",
                        !.log = Append(@, Event("emit", e, q))]
    IN Emit(w1, e, "hook", 1)

\* lines 369-372: the rejection handler, given the reason e
OnQueryCatch(w, q, e) ==
    LET w1 == [w EXCEPT !.marked = @ \cup {e}, !.queries[q].pc = "end",
                        !.log = Append(@, Event("emit", w.queries[q].exc, q))]
    IN Emit(w1, w.queries[q].exc, "hook", 1)

\* lines 349-372: getSession()'s promise settles.  Without a session the
\* continuation throws the exception (line 367), which rejects the promise the
\* rejection handler is chained on.
OnQuerySettled(w, q, outcome, t) ==
    IF outcome = "session" THEN OnSession(w, q, t)
    ELSE IF outcome = "null" THEN OnQueryCatch(w, q, w.queries[q].exc)
    ELSE OnQueryCatch(w, q, SessionError)

\* what a continuation throws rejects a promise nobody handles
Unhandled(w, q) == [w EXCEPT !.queries[q].unhandled = w.threw]

QuerySettled(q, outcome, t) ==
    /\ q \in DOMAIN queries
    /\ queries[q].pc = "query"
    /\ SetWorld([Unhandled(OnQuerySettled(World, q, outcome, t), q)
                   EXCEPT !.queries[q].outcome = outcome])
    /\ UNCHANGED <<phase, sessionRet, env, screenShotPath, options, clickWrapped,
                   hookInstalled, setupCalls, title, dones, clicks, stack, dirs,
                   files>>

\* a continuation that emits nothing
OnHookSnapFulfilledSilent(w, q) == [w EXCEPT !.queries[q].pc = "end"]

\* lines 362-365: the continuation of the hook's snap
OnHookSnapFulfilled(w, q) ==
    LET w1 == [w EXCEPT !.queries[q].pc = "end",
                        !.log = Append(@, Event("emit", w.queries[q].exc, q))]
    IN Emit(w1, w.queries[q].exc, "hook", 1)

HookSnapFulfilled(q) ==
    /\ q \in DOMAIN queries
    /\ queries[q].pc = "snap"
    /\ caps[queries[q].cap].state = "fulfilled"
    /\ stack' = appendImageUrlToStackTrace(stack, caps[queries[q].cap].value,
                                           queries[q].exc)
    /\ SetWorld(Unhandled(OnHookSnapFulfilled(World, q), q))
    /\ UNCHANGED <<phase, sessionRet, env, screenShotPath, options, clickWrapped,
                   hookInstalled, setupCalls, title, dones, clicks, dirs, files>>

\* line 362 registers no rejection handler: a rejected snap ends the handling
HookSnapRejected(q) ==
    /\ q \in DOMAIN queries
    /\ queries[q].pc = "snap"
    /\ caps[queries[q].cap].state = "rejected"
    /\ queries' = [queries EXCEPT ![q].pc = "end",
                                  ![q].unhandled = caps[queries[q].cap].value.err]
    /\ UNCHANGED <<phase, sessionRet, env, screenShotPath, options, clickWrapped,
                   hookInstalled, setupCalls, title, caps, dones, clicks, passes,
                   marked, stack, dirs, files, log>>

----------------------------------------------------------------------------
(* The specification *)

Init ==
    /\ phase = "new"
    /\ sessionRet \in SessionReturns
    /\ env \in Environments
    /\ screenShotPath = <<>>
    /\ options = {}
    /\ clickWrapped = FALSE
    /\ hookInstalled = FALSE
    /\ setupCalls = <<>>
    /\ title = <<>>
    /\ caps = <<>>
    /\ dones = <<>>
    /\ clicks = <<>>
    /\ queries = <<>>
    /\ passes = <<>>
    /\ marked = {}
    /\ stack = [e \in Errors |-> <<e>>]
    /\ dirs = {Sep}
    /\ files = {}
    /\ log = <<>>

Next ==
    \/ \E path \in ShotPaths, opts \in SUBSET {"click", "source", "exception"},
          nargs \in {3, 4} : Setup(path, opts, nargs)
    \/ \E t \in Titles : SetCurrentTestTitle(t)
    \/ \E f \in FileNames : Snap(f)
    \/ \E f \in FileNames : Source(f)
    \/ \E f \in FileNames, err \in {"e1", "none"} : Done(f, err)
    \/ \E t \in 0..MaxTime : Click(t)
    \/ \E e \in Errors : UncaughtException(e)
    \/ \E c \in 1..MaxCaptures, ok \in BOOLEAN : RequestFulfilled(c, ok)
    \/ \E c \in 1..MaxCaptures : RequestRejected(c)
    \/ \E c \in 1..MaxCaptures, err \in {"none", WriteError} : WriteAnswered(c, err)
    \/ \E c \in 1..MaxCaptures, ok \in BOOLEAN : ScriptAnswered(c, ok)
    \/ \E c \in 1..MaxCaptures, ok \in BOOLEAN : InvisiWriteAnswered(c, ok)
    \/ \E d \in 1..MaxCaptures : DoneReaction(d)
    \/ \E q \in 1..MaxCaptures, outcome \in SessionOutcomes, t \in 0..MaxTime :
          QuerySettled(q, outcome, t)
    \/ \E q \in 1..MaxCaptures : HookSnapFulfilled(q)
    \/ \E q \in 1..MaxCaptures : HookSnapRejected(q)
    \/ \E k \in 1..MaxCaptures, ok \in BOOLEAN : OriginalClickAnswered(k, ok)
    \/ \E k \in 1..MaxCaptures : ClickReturnSettled(k)

Spec == Init /\ [][Next]_vars

----------------------------------------------------------------------------
(* The awaitable bridge on its own: one pair made by p(wd), lines 21-35,   *)
(* whose fulfill and reject are called in any order, any number of times.  *)
(* The pair is backed by the native Promise when there is one (lines       *)
(* 30-32) and by the driver's deferred otherwise (lines 23-29, 33).        *)

\* calls of fulfill and reject on the pair
MaxCalls == 3

BridgeKinds == {"native", "driver"}
BridgeValues == {TrueValue, [tag |-> "v1"], [tag |-> "v2"]}

BridgeInit ==
    /\ phase = "bridge"
    /\ \E k \in BridgeKinds : caps = <<NewCapture(k, <<>>, "p")>>
    /\ sessionRet = "promise"
    /\ env = CHOOSE e \in Environments : e.JENKINS_URL = <<>>
    /\ screenShotPath = <<>>
    /\ options = {}
    /\ clickWrapped = FALSE
    /\ hookInstalled = FALSE
    /\ setupCalls = <<>>
    /\ title = <<>>
    /\ dones = <<>>
    /\ clicks = <<>>
    /\ queries = <<>>
    /\ passes = <<>>
    /\ marked = {}
    /\ stack = [e \in Errors |-> <<e>>]
    /\ dirs = {Sep}
    /\ files = {}
    /\ log = <<>>

\* lines 24-26 and 31: fulfill(v)
BridgeFulfill(v) ==
    /\ phase = "bridge"
    /\ Len(log) < MaxCalls
    /\ caps' = [caps EXCEPT ![1] = Fulfill(@, v)]
    /\ log' = Append(log, Event("fulfill", v.tag, 0))
    /\ UNCHANGED <<phase, sessionRet, env, screenShotPath, options, clickWrapped,
                   hookInstalled, setupCalls, title, dones, clicks, queries, passes,
                   marked, stack, dirs, files>>

\* lines 27-29 and 32: reject(e)
BridgeReject(e) ==
    /\ phase = "bridge"
    /\ Len(log) < MaxCalls
    /\ caps' = [caps EXCEPT ![1] = Reject(@, e)]
    /\ log' = Append(log, Event("reject", e, 0))
    /\ UNCHANGED <<phase, sessionRet, env, screenShotPath, options, clickWrapped,
                   hookInstalled, setupCalls, title, dones, clicks, queries, passes,
                   marked, stack, dirs, files>>

BridgeNext ==
    \/ \E v \in BridgeValues : BridgeFulfill(v)
    \/ \E e \in Errors : BridgeReject(e)

BridgeSpec == BridgeInit /\ [][BridgeNext]_vars

----------------------------------------------------------------------------
(* The exception hook under any title: setup with ['exception'] and        *)
(* setCurrentTestTitle(t) have been called, and exceptions are reported     *)
(* while a session is present (lines 349-362).                              *)

\* characters of the short titles
MaxTitle == 3
\* word characters in front of a title that reaches the cut of line 42
PadLen == 249

TitleChars == {"a", " ", "#", "_"}
ShortTitles == UNION {[1..n -> TitleChars] : n \in 0..MaxTitle}
Pad == [i \in 1..PadLen |-> "b"]
ExampleTitle == <<"M", "y", " ", "T", "e", "s", "t", ":", " ",
                  "C", "a", "s", "e", " ", "#", "1">>
SlugTitles == ShortTitles \cup {Pad \o t : t \in ShortTitles} \cup {ExampleTitle}

SlugInit ==
    /\ phase = "ready"
    /\ title \in SlugTitles
    /\ sessionRet = "promise"
    /\ env = CHOOSE e \in Environments : e.JENKINS_URL = <<>>
    /\ screenShotPath \in ShotPaths
    /\ options = {"exception"}
    /\ clickWrapped = FALSE
    /\ hookInstalled = TRUE
    /\ setupCalls = <<"null">>
    /\ caps = <<>>
    /\ dones = <<>>
    /\ clicks = <<>>
    /\ queries = <<>>
    /\ passes = <<>>
    /\ marked = {}
    /\ stack = [e \in Errors |-> <<e>>]
    /\ dirs = {Sep}
    /\ files = {}
    /\ log = <<>>

SlugNext ==
    \/ \E e \in Errors : UncaughtException(e)
    \/ \E q \in 1..MaxCaptures, t \in 0..MaxTime : QuerySettled(q, "session", t)

SlugSpec == SlugInit /\ [][SlugNext]_vars

----------------------------------------------------------------------------
(* formatJenkinsImageUrls on its own, lines 66-99, under every combination *)
(* of the four environment variables; a variable that is unset or empty    *)
(* reads as falsy.                                                         *)

JenkinsEnvironments ==
    [JENKINS_URL : {<<>>, <<"J">>}, BUILD_URL : {<<>>, <<"B">>},
     JOB_NAME : {<<>>, <<"j">>}, WORKSPACE : {<<>>, <<"/", "w">>}]
JenkinsPaths == {<<"r">>, <<"/", "w", "/", "r">>}

JenkinsInit ==
    /\ phase = "jenkins"
    /\ env \in JenkinsEnvironments
    /\ screenShotPath \in JenkinsPaths
    /\ sessionRet = "promise"
    /\ options = {}
    /\ clickWrapped = FALSE
    /\ hookInstalled = FALSE
    /\ setupCalls = <<>>
    /\ title = <<>>
    /\ caps = <<>>
    /\ dones = <<>>
    /\ clicks = <<>>
    /\ queries = <<>>
    /\ passes = <<>>
    /\ marked = {}
    /\ stack = [e \in Errors |-> <<e>>]
    /\ dirs = {Sep}
    /\ files = {}
    /\ log = <<>>

\* formatJenkinsImageUrls(screenShotPath, f + '.png'); its result is kept in
\* the record of the call
JenkinsFormat(f) ==
    /\ phase = "jenkins"
    /\ Len(caps) < MaxCaptures
    /\ caps' = Append(caps, [NewCapture("snap", f, "format") EXCEPT
                                !.obj = formatJenkinsImageUrls(env, screenShotPath, f \o Png)])
    /\ UNCHANGED <<phase, sessionRet, env, screenShotPath, options, clickWrapped,
                   hookInstalled, setupCalls, title, dones, clicks, queries, passes,
                   marked, stack, dirs, files, log>>

JenkinsNext == \E f \in FileNames : JenkinsFormat(f)

JenkinsSpec == JenkinsInit /\ [][JenkinsNext]_vars

----------------------------------------------------------------------------
(* Properties *)

Settled(c) == caps[c].state # "pending"
Snaps == {c \in DOMAIN caps : caps[c].kind = "snap"}
Sources == {c \in DOMAIN caps : caps[c].kind = "source"}
CaptureRequests == {"takeScreenshot", "getPageSource", "executeScript"}
IsPrefix(a, b) == Len(a) <= Len(b) /\ SubSeq(b, 1, Len(a)) = a
Contains(text, part) ==
    \E k \in 0..(Len(text) - Len(part)) : SubSeq(text, k + 1, k + Len(part)) = part

\* C1: the callback of a call of done is never invoked while snap's awaitable
\* is pending and never twice, and it has been invoked exactly once as soon as
\* the continuation of the settled awaitable has run, whether the awaitable
\* is fulfilled or rejected.
C1_DoneCallsBackOnce ==
    \A d \in DOMAIN dones :
        /\ Len(dones[d].calls) <= 1
        /\ Len(dones[d].calls) = 1 => Settled(dones[d].cap)
        /\ ~Settled(dones[d].cap) => ~dones[d].reacted
        /\ dones[d].reacted => Len(dones[d].calls) = 1

\* two calls of done, one whose snap is fulfilled by a written file and one
\* whose snap is rejected, have both called back
C1_Witness ==
    \E d1, d2 \in DOMAIN dones :
        /\ caps[dones[d1].cap].state = "fulfilled" /\ caps[dones[d1].cap].written = "ok"
        /\ caps[dones[d2].cap].state = "rejected"
        /\ Len(dones[d1].calls) = 1 /\ Len(dones[d2].calls) = 1

\* C2: when getSession() returns no session, snap and source issue no capture
\* request to the driver, create no directory and write no file, and their
\* awaitables are fulfilled with true (never pending, never rejected).
C2_NoSessionNoOp ==
    sessionRet = "undefined" =>
        /\ \A c \in DOMAIN caps :
              /\ caps[c].state = "fulfilled" /\ caps[c].value = TrueValue
              /\ caps[c].pc = "end" /\ caps[c].script = "none"
        /\ \A i \in DOMAIN log : ~(log[i].ev = "request" /\ log[i].op \in CaptureRequests)
        /\ dirs = {Sep}
        /\ files = {}

C2_Witness ==
    /\ sessionRet = "undefined"
    /\ Snaps # {}
    /\ Sources # {}

\* C3: with a session, a snap whose takeScreenshot() was rejected with e, or
\* whose file write reported e, has its awaitable rejected with e itself.
C3_SnapRejectsWithSameError ==
    \A c \in Snaps :
        /\ caps[c].answer = ShotError =>
              caps[c].state = "rejected" /\ caps[c].value = ErrorValue(ShotError)
        /\ caps[c].written = WriteError =>
              caps[c].state = "rejected" /\ caps[c].value = ErrorValue(WriteError)

C3_Witness ==
    \E c1, c2 \in Snaps :
        /\ caps[c1].answer = ShotError /\ caps[c1].state = "rejected"
        /\ caps[c2].written = WriteError /\ caps[c2].state = "rejected"

\* C4: with a session, a snap(f) whose awaitable is fulfilled with a result has
\* written f.png under the resolved base directory, successfully and before,
\* and the result names that file and that path.
C4_FulfilledAfterWrite ==
    \A c \in Snaps :
        (caps[c].state = "fulfilled" /\ caps[c].value # TrueValue) =>
            LET name == caps[c].filename \o <<".", "p", "n", "g">>
                base == Resolve(screenShotPath)
            IN /\ caps[c].written = "ok"
               /\ caps[c].value.tag = "image"
               /\ caps[c].value.imageName = name
               /\ caps[c].value.imagePath = base \o <<"/">> \o name
               /\ caps[c].value.imagePath \in files
               /\ Dirname(caps[c].value.imagePath) \in dirs
               /\ IsPrefix(base \o <<"/">>, caps[c].value.imagePath)
               /\ base[1] = "/"

C4_Witness ==
    \E c \in Snaps :
        /\ caps[c].state = "fulfilled" /\ caps[c].value # TrueValue
        /\ caps[c].filename = <<"d", "/", "g">>

\* C5: once mkdirp.sync has failed in the continuation of snap or source, and
\* nothing of the capture is left to run, its awaitable is rejected.
C5_MkdirFailureRejects ==
    \A c \in DOMAIN caps :
        (caps[c].mkdir = MkdirError /\ caps[c].pc \notin {"request", "write"}) =>
            caps[c].state = "rejected"

\* C6: a pass of an exception that is already marked through the hook emits
\* the exception once, starts no session query (and so no snap or source) and
\* returns.
C6_SecondPassOnlyReemits ==
    \A p \in DOMAIN passes :
        passes[p].wasMarked =>
            /\ passes[p].emitted = 1
            /\ ~passes[p].queried
            /\ passes[p].result = "returned"

HookEmits(q) == {i \in DOMAIN log : log[i].ev = "emit" /\ log[i].id = q}
HookCaptures == {c \in DOMAIN caps : caps[c].by = "hook"}
DoneErrors == {dones[d].err : d \in DOMAIN dones}

\* C7: for an exception that enters the hook unmarked while a session is
\* present, a snap is started; the hook emits the exception only once that snap
\* is fulfilled, and by then the exception is marked and its trace ends with
\* the location of the artifact; and it has emitted it once the continuation
\* of the fulfilled snap has run.
C7_EmitAfterSnap ==
    \A q \in DOMAIN queries :
        queries[q].outcome = "session" =>
            LET c == queries[q].cap
                e == queries[q].exc
            IN /\ c \in Snaps /\ caps[c].by = "hook"
               /\ \E i \in DOMAIN log : log[i] = Event("request", "takeScreenshot", c)
               /\ HookEmits(q) # {} =>
                     /\ caps[c].state = "fulfilled"
                     /\ e \in marked
                     /\ Contains(stack[e], ImageUrlOutput(caps[c].value))
                     /\ \A i \in HookEmits(q) : log[i].op = e
               /\ caps[c].state = "pending" => HookEmits(q) = {}
               /\ (queries[q].pc = "end" /\ caps[c].state = "fulfilled") =>
                     Cardinality(HookEmits(q)) = 1

C7_Witness ==
    \E q \in DOMAIN queries :
        /\ queries[q].outcome = "session"
        /\ caps[queries[q].cap].state = "fulfilled"
        /\ HookEmits(q) # {}
        /\ ~passes[1].wasMarked

\* C8 as stated: when the session query is fulfilled with no session, no
\* capture is started and the exception is not emitted on the channel (it
\* leaves the hook as a throw).
C8_NoSessionThrows ==
    \A q \in DOMAIN queries :
        queries[q].outcome = "null" =>
            /\ queries[q].cap = 0
            /\ HookEmits(q) = {}

\* C8 as amended: when the session query is fulfilled with no session, no
\* capture is started, and the exception thrown in the continuation is caught
\* by the hook's rejection handler, which emits that exception, marked, on the
\* channel.
C8_NoSessionReemits ==
    /\ Cardinality(HookCaptures) =
          HookCost * Cardinality({q \in DOMAIN queries : queries[q].outcome = "session"})
    /\ \A q \in DOMAIN queries :
          queries[q].outcome = "null" =>
              /\ queries[q].cap = 0
              /\ Cardinality(HookEmits(q)) = 1
              /\ \A i \in HookEmits(q) : log[i].op = queries[q].exc
              /\ queries[q].exc \in marked
              /\ queries[q].unhandled # queries[q].exc

C8_Witness ==
    \E q \in DOMAIN queries : queries[q].outcome = "null" /\ HookEmits(q) # {}

\* C9: when the session query is rejected, no capture is started, the
\* exception is marked, and the hook emits the exception itself, not the
\* failure of the query, with the trace the exception came with.
C9_QueryFailureReemits ==
    \A q \in DOMAIN queries :
        queries[q].outcome = "rejected" =>
            /\ queries[q].cap = 0
            /\ queries[q].exc \in marked
            /\ Cardinality(HookEmits(q)) = 1
            /\ \A i \in HookEmits(q) : log[i].op = queries[q].exc
            /\ \A i \in DOMAIN log : log[i].op # SessionError
            /\ queries[q].exc \notin DoneErrors => stack[queries[q].exc] = <<queries[q].exc>>

C9_Witness ==
    \E q \in DOMAIN queries :
        /\ queries[q].outcome = "rejected"
        /\ HookEmits(q) # {}
        /\ queries[q].exc \notin DoneErrors

ClickEvents(k) == {i \in DOMAIN log : log[i] = Event("oclick", "click", k)}

\* what one invocation of the wrapped click does, in order: with a session
\* the requests of source (if configured) and then of snap, and last the
\* original click, while the awaitables of the captures it started are pending
C10_ClickStep ==
    (Len(clicks') = Len(clicks) + 1 /\ clickWrapped) =>
        LET k == Len(clicks')
            c == clicks'[k].cap
            src == "source" \in options
            new == SubSeq(log', Len(log) + 1, Len(log'))
            requests ==
                IF sessionRet = "promise"
                THEN (IF src THEN <<Event("request", "executeScript", c - 1),
                                    Event("request", "getPageSource", c - 1)>>
                      ELSE <<>>)
                     \o <<Event("request", "takeScreenshot", c)>>
                ELSE <<>>
        IN /\ new = requests \o <<Event("oclick", "click", k)>>
           /\ Len(caps') = Len(caps) + (IF src THEN 2 ELSE 1)
           /\ c = Len(caps') /\ caps'[c].kind = "snap"
           /\ src => caps'[c - 1].kind = "source"
           /\ sessionRet = "promise" =>
                 \A j \in (Len(caps) + 1)..Len(caps') : caps'[j].state = "pending"

C10_ClickedOnce == \A k \in DOMAIN clicks : Cardinality(ClickEvents(k)) = 1

\* C10: every invocation of the wrapped click calls source (only if 'source'
\* is configured) and then snap, whose requests to the driver (issued when
\* there is a session) precede the invocation of the original click; the
\* original click is invoked exactly once per invocation, in the same run of
\* the wrapper, while the awaitables of both captures are still pending.
C10_CapturesStartedBeforeClick == []C10_ClickedOnce /\ [][C10_ClickStep]_vars

C10_Witness ==
    \E k \in DOMAIN clicks :
        /\ clicks[k].wrapped /\ "source" \in options /\ sessionRet = "promise"
        /\ ClickEvents(k) # {}
        /\ caps[clicks[k].cap].state = "pending"
        /\ caps[clicks[k].cap - 1].state = "pending"

\* what the side channel of source does to the awaitable in one step: nothing
C11_SideChannelStep ==
    \A c \in DOMAIN caps :
        caps'[c].script # caps[c].script =>
            /\ caps'[c].state = caps[c].state
            /\ caps'[c].value = caps[c].value

\* the awaitable of source as a function of getPageSource() and the .html write
C11_PrimaryOutcome ==
    \A c \in Sources :
        /\ caps[c].answer = SourceError =>
              caps[c].state = "rejected" /\ caps[c].value = ErrorValue(SourceError)
        /\ caps[c].written = WriteError =>
              caps[c].state = "rejected" /\ caps[c].value = ErrorValue(WriteError)
        /\ caps[c].written = "ok" =>
              caps[c].state = "fulfilled" /\ caps[c].value = SourceObject(caps[c])
        /\ caps[c].state = "rejected" =>
              caps[c].answer = SourceError \/ caps[c].written = WriteError

\* C11: the awaitable of source is settled by getPageSource() and the write of
\* the .html file alone: a rejected executeScript() or a failed .txt write
\* changes neither its state nor its value, and a source whose .html was
\* written is fulfilled with {sourceName, sourcePath} whatever the side channel
\* did.
C11_SideChannelNeverSurfaces == []C11_PrimaryOutcome /\ [][C11_SideChannelStep]_vars

\* one source whose script failed and one whose .txt write failed, both
\* fulfilled with their result
C11_Witness ==
    \E c1, c2 \in Sources :
        /\ caps[c1].script = "rejected" /\ caps[c2].script = "logged"
        /\ caps[c1].state = "fulfilled" /\ caps[c1].value = SourceObject(caps[c1])
        /\ caps[c2].state = "fulfilled" /\ caps[c2].value = SourceObject(caps[c2])

\* the text of the artifact location of result v: its URLs if it has any,
\* and its JSON dump otherwise
LocationText(v, text) ==
    IF v.tag = "image" /\ (v.imageUrl # Undefined \/ v.archivedImageUrl # Undefined)
    THEN /\ v.imageUrl # Undefined => Contains(text, v.imageUrl)
         /\ v.archivedImageUrl # Undefined => Contains(text, v.archivedImageUrl)
    ELSE Contains(text, JsonStringify(v))

\* the step in which a continuation of done runs
C12_DoneStep ==
    \A d \in DOMAIN dones :
        (~dones[d].reacted /\ dones'[d].reacted) =>
            LET cap == caps[dones[d].cap]
                err == dones[d].err
            IN IF cap.state = "fulfilled"
               THEN /\ dones'[d].calls = <<err>>
                    /\ \A e \in Errors :
                          IF e = err
                          THEN \E text \in {ImageUrlOutput(cap.value)} :
                                  /\ stack'[e] = stack[e] \o text
                                  /\ text # <<>>
                                  /\ LocationText(cap.value, text)
                          ELSE stack'[e] = stack[e]
               ELSE /\ cap.state = "rejected"
                    /\ dones'[d].calls = <<cap.value.err>>
                    /\ stack' = stack

C12_DoneCalledWith ==
    \A d \in DOMAIN dones :
        dones[d].reacted =>
            dones[d].calls = <<IF caps[dones[d].cap].state = "fulfilled" THEN dones[d].err
                               ELSE caps[dones[d].cap].value.err>>

\* C12: when snap's awaitable is fulfilled, done appends the location of the
\* artifact (its URLs, or the JSON dump of the result when it has none) to the
\* trace of the error it was given and calls back with that error; when snap's
\* awaitable is rejected with s, it calls back with s and leaves every trace
\* as it was.
C12_DoneAnnotatesAndCallsBack == []C12_DoneCalledWith /\ [][C12_DoneStep]_vars

\* a done with an error whose snap wrote its file, and a done whose snap was
\* rejected, have both called back
C12_Witness ==
    \E d1, d2 \in DOMAIN dones :
        /\ dones[d1].err = "e1" /\ dones[d1].calls = <<"e1">>
        /\ caps[dones[d1].cap].state = "fulfilled"
        /\ caps[dones[d1].cap].value.tag = "image"
        /\ Len(stack["e1"]) > 1
        /\ caps[dones[d2].cap].state = "rejected" /\ dones[d2].reacted

IsSlugOf(slug, s) ==
    /\ Len(slug) = (IF Len(s) < 251 THEN Len(s) ELSE 251)
    /\ \A i \in 1..Len(slug) :
          slug[i] = IF s[i] \in WordChars THEN s[i] ELSE "_"

\* the title without the white space in front of it and behind it
Leading(s) == Cardinality({i \in 1..Len(s) : \A j \in 1..i : s[j] \in WhiteSpace})
Trailing(s) == Cardinality({i \in 1..Len(s) : \A j \in i..Len(s) : s[j] \in WhiteSpace})
Core(s) == IF Leading(s) = Len(s) THEN <<>>
           ELSE SubSeq(s, Leading(s) + 1, Len(s) - Trailing(s))

\* C14 as stated: the filename of a capture of the hook under a title is the
\* title with every non-word character replaced by "_", one for one and in
\* place, cut to 251 characters.
C14_SlugReplacesInPlace ==
    \A c \in HookCaptures : title # <<>> => IsSlugOf(caps[c].filename, title)

\* C14 as amended: the filename of a capture of the hook under a title is the
\* title without its leading and trailing white space, with every remaining
\* non-word character replaced by "_", one for one, cut to the first 251
\* characters.
C14_SlugOfTrimmedTitle ==
    \A c \in HookCaptures : title # <<>> => IsSlugOf(caps[c].filename, Core(title))

\* captures under a title with white space in front and a character to
\* replace, and the example of the title slugging
C14_Witness ==
    /\ title = <<" ", "#", "a">>
    /\ \E c \in HookCaptures : caps[c].filename = <<"_", "a">>

C14_ExampleReached ==
    /\ title = ExampleTitle
    /\ \E c \in HookCaptures :
          caps[c].filename = <<"M", "y", "_", "T", "e", "s", "t", "_", "_",
                                "C", "a", "s", "e", "_", "_", "1">>

\* C15: formatJenkinsImageUrls returns null whenever WORKSPACE is unset; with
\* WORKSPACE set, it returns null exactly when JOB_NAME and BUILD_URL are both
\* unset, and otherwise a result that has imageUrl exactly when JOB_NAME is set
\* and archivedImageUrl exactly when BUILD_URL is set.
C15_UrlsAsConfigured ==
    \A c \in DOMAIN caps :
        LET r == caps[c].obj
        IN IF env.WORKSPACE = <<>> THEN r.tag = "null"
           ELSE /\ r.tag = "null" <=> (env.JOB_NAME = <<>> /\ env.BUILD_URL = <<>>)
                /\ r.tag \in {"null", "urls"}
                /\ r.tag = "urls" =>
                      /\ r.imageUrl # Undefined <=> env.JOB_NAME # <<>>
                      /\ r.archivedImageUrl # Undefined <=> env.BUILD_URL # <<>>

\* with the job name and no build URL, a path under the workspace gives the
\* workspace URL alone
C15_Witness ==
    /\ env = [JENKINS_URL |-> <<"J">>, BUILD_URL |-> <<>>, JOB_NAME |-> <<"j">>,
              WORKSPACE |-> <<"/", "w">>]
    /\ screenShotPath = <<"/", "w", "/", "r">>
    /\ \E c \in DOMAIN caps :
          /\ caps[c].obj.tag = "urls"
          /\ caps[c].obj.imageUrl =
                <<"J", "job/", "j", "/ws", "/", "r", "/", "f", ".", "p", "n", "g">>
          /\ caps[c].obj.archivedImageUrl = Undefined

Reported == {i \in DOMAIN log : log[i].ev = "uncaughtException"}

\* C16: after setup the click wrapper is installed iff the options contain
\* 'click' and the listener iff they contain 'exception' (the options are empty
\* when setup is called with three arguments); without 'click' no click starts
\* a capture, without 'exception' no reported exception starts a session query
\* or a capture; setup has called its callback once, with null.
C16_HooksAsConfigured ==
    /\ phase = "new" => ~clickWrapped /\ ~hookInstalled /\ setupCalls = <<>>
    /\ phase = "ready" =>
          /\ clickWrapped <=> "click" \in options
          /\ hookInstalled <=> "exception" \in options
          /\ setupCalls = <<"null">>
    /\ "click" \notin options =>
          /\ \A c \in DOMAIN caps : caps[c].by # "click"
          /\ \A k \in DOMAIN clicks : ~clicks[k].wrapped /\ clicks[k].cap = 0
    /\ "exception" \notin options =>
          /\ HookCaptures = {}
          /\ queries = <<>>
          /\ passes = <<>>

\* set up with 'source' alone, an element was clicked; set up without options,
\* an element was clicked and an exception reported: nothing was captured
C16_Witness ==
    /\ phase = "ready"
    /\ options \in {{}, {"source"}}
    /\ clicks # <<>>
    /\ options = {} => Reported # {}
    /\ caps = <<>>

\* C17: the awaitable returned by the wrapped click is pending as long as
\* snap's awaitable is, and settles as snap's awaitable did, fulfilled with its
\* result or rejected with its failure, whether the original click is still
\* pending, has succeeded or has failed.
C17_ClickReturnsSnapOutcome ==
    \A k \in DOMAIN clicks :
        clicks[k].wrapped =>
            LET snap == caps[clicks[k].cap]
            IN /\ snap.kind = "snap" /\ snap.by = "click"
               /\ ClickEvents(k) # {}
               /\ snap.state = "pending" => clicks[k].ret.state = "pending"
               /\ clicks[k].ret.state # "pending" =>
                     /\ clicks[k].ret.state = snap.state
                     /\ clicks[k].ret.value = snap.value

\* one click that succeeded while its snap was rejected, one click that failed
\* while its snap was fulfilled: the awaitables returned follow the snaps
C17_Witness ==
    \E k1, k2 \in DOMAIN clicks :
        /\ clicks[k1].wrapped /\ clicks[k2].wrapped
        /\ clicks[k1].oclick.state = "fulfilled"
        /\ clicks[k1].ret = [state |-> "rejected", value |-> ErrorValue(ShotError)]
        /\ clicks[k2].oclick.state = "rejected"
        /\ clicks[k2].ret.state = "fulfilled" /\ clicks[k2].ret.value.tag = "image"

\* C18: once the hook has finished with an exception that it received with a
\* session present (nothing of its handling is left to run), it has emitted
\* the exception on the channel, also when the snap it started was rejected.
C18_NoExceptionLost ==
    \A q \in DOMAIN queries :
        (queries[q].outcome = "session" /\ queries[q].pc = "end") => HookEmits(q) # {}

\* C19: the emits of the hook do not answer one another without end, that is,
\* no emit of the hook nests activations of the listener until the stack is
\* exhausted (RangeError), neither under the control flow's report nor under a
\* continuation of the hook; and at most one snap of the hook is started per
\* exception object.
C19_ReemitIsBounded ==
    /\ \A i \in DOMAIN log : ~(log[i].ev = "thrown" /\ log[i].op = "RangeError")
    /\ \A q \in DOMAIN queries : queries[q].unhandled # "RangeError"
    /\ \A e \in Errors :
          Cardinality({c \in HookCaptures \cap Snaps :
                          \E q \in DOMAIN queries :
                              queries[q].cap = c /\ queries[q].exc = e}) <= 1

\* a step that changes a trace
C20_TraceChanged == stack' # stack

\* C20 as stated: every step that changes the trace of an error is a
\* continuation of done.
C20_OnlyDoneAnnotates ==
    [][C20_TraceChanged => \E d \in DOMAIN dones : DoneReaction(d)]_vars

\* C20 as amended: every step that changes the trace of an error is the
\* fulfilment continuation of done or of the hook's snap, and it appends the
\* location of the artifact to the trace of the error of that done, or of the
\* exception of that hook, and to no other; snap, source, setCurrentTestTitle
\* and the wrapped click change no trace.
C20_OnlyDoneAndHookAnnotate ==
    [][C20_TraceChanged =>
          \/ \E d \in DOMAIN dones :
                /\ DoneReaction(d)
                /\ caps[dones[d].cap].state = "fulfilled"
                /\ \A e \in Errors :
                      stack'[e] = IF e = dones[d].err
                                  THEN stack[e] \o ImageUrlOutput(caps[dones[d].cap].value)
                                  ELSE stack[e]
          \/ \E q \in DOMAIN queries :
                /\ HookSnapFulfilled(q)
                /\ \A e \in Errors :
                      stack'[e] = IF e = queries[q].exc
                                  THEN stack[e] \o ImageUrlOutput(caps[queries[q].cap].value)
                                  ELSE stack[e]]_vars

\* the hook has annotated an exception that no done was given, after a click
\* and its captures
C20_Witness ==
    /\ DoneErrors = {}
    /\ clicks # <<>>
    /\ \E q \in DOMAIN queries :
          /\ queries[q].pc = "end"
          /\ Len(stack[queries[q].exc]) > 1

====
